---- MODULE Spec2Model ----
(***************************************************************************)
(* Model of the TDG HTTP client layer: the request gateway of api.ts       *)
(* (apiRequest, get, post, put, del, uploadFile, downloadFile), the        *)
(* generation, batch, template, schedule and PDF endpoint functions.       *)
(*                                                                         *)
(* Every exported function is an async function that issues one fetch.     *)
(* A call goes through: the synchronous part up to `fetch(...)`            *)
(* (arguments -> issued request); the transport taking the request, the    *)
(* function being suspended at its await; the continuation that runs once  *)
(* the transport has settled (response or rejection -> value delivered to  *)
(* the caller); the caller resuming with that value.  The transport and    *)
(* the host runtime are the environment: the continuation actions draw     *)
(* their outcome from bounded sets.                                        *)
(***************************************************************************)
EXTENDS Integers, Sequences, FiniteSets, TLC

VARIABLES
    args,          \* arguments of the call being issued (NoArgs otherwise)
    inflight,      \* request being handed to fetch (NoRequest otherwise)
    frame,         \* the async function in progress and what it still needs
    transport,     \* what the transport delivered to the last completed call
    outcome,       \* what the last completed call delivered to its caller
    saveRequests,  \* filenames the host runtime was asked to save (this call)
    consoleLog     \* diagnostic prefixes written with console.error (this call)

vars == <<args, inflight, frame, transport, outcome, saveRequests, consoleLog>>

(***************************************************************************)
(* Bounds                                                                  *)
(***************************************************************************)
MaxParams == 2     \* entries of a params map

(***************************************************************************)
(* JavaScript values                                                       *)
(***************************************************************************)
Undefined == [t |-> "undefined"]
Null == [t |-> "null"]
Str(s) == [t |-> "string", s |-> s]
Chars(cs) == [t |-> "string", chars |-> cs]
Num(n) == [t |-> "number", n |-> n]
Bool(b) == [t |-> "boolean", b |-> b]
Obj(id, message) == [t |-> "object", id |-> id, message |-> message]
ErrorValue(name, message) == [t |-> "Error", name |-> name, message |-> message]

\* ToBoolean, as used by `if (x)` and `a || b`
Truthy(v) ==
    CASE v.t = "undefined" -> FALSE
      [] v.t = "null" -> FALSE
      [] v.t = "string" -> IF "s" \in DOMAIN v THEN v.s # "" ELSE v.chars # <<>>
      [] v.t = "number" -> v.n # 0
      [] v.t = "boolean" -> v.b
      [] OTHER -> TRUE

\* a || b
Or(a, b) == IF Truthy(a) THEN a ELSE b

\* v !== undefined && v !== null
Defined(v) == v # Undefined /\ v # Null

\* v?.message
OptMessage(v) ==
    IF v.t = "object" THEN v.message ELSE Undefined

(***************************************************************************)
(* Strings that are processed character by character are sequences of      *)
(* one-character strings.                                                  *)
(***************************************************************************)
RECURSIVE Flatten(_)
Flatten(ss) == IF ss = <<>> THEN <<>> ELSE Head(ss) \o Flatten(Tail(ss))

RECURSIVE Join(_, _)
Join(ss, sep) ==
    IF ss = <<>> THEN <<>>
    ELSE IF Len(ss) = 1 THEN ss[1]
    ELSE ss[1] \o sep \o Join(Tail(ss), sep)

Digits == <<"0", "1", "2", "3", "4", "5", "6", "7", "8", "9">>
DigitSet == {Digits[i] : i \in 1..10}
DigitValue(c) == (CHOOSE i \in 1..10 : Digits[i] = c) - 1

RECURSIVE DecimalValue(_)
DecimalValue(cs) ==
    IF cs = <<>> THEN 0
    ELSE 10 * DecimalValue(SubSeq(cs, 1, Len(cs) - 1)) + DigitValue(cs[Len(cs)])

\* Number.prototype.toString for the non-negative integers the callers pass
RECURSIVE NumberToString(_)
NumberToString(n) ==
    IF n < 10 THEN <<Digits[n + 1]>>
    ELSE NumberToString(n \div 10) \o <<Digits[(n % 10) + 1]>>

(***************************************************************************)
(* Object.entries: own enumerable string keys in property order, i.e. the  *)
(* canonical array-index keys in ascending numeric order first, then the   *)
(* other keys in insertion order.  A map is held as the sequence of its    *)
(* <<key, value>> entries in insertion order (keys are unique).            *)
(***************************************************************************)
IsArrayIndex(k) ==
    /\ k # <<>>
    /\ \A i \in 1..Len(k) : k[i] \in DigitSet
    /\ (Len(k) = 1 \/ k[1] # "0")
    /\ Len(k) <= 9

IndexEntry(e) == IsArrayIndex(e[1])
NamedEntry(e) == ~IsArrayIndex(e[1])

RECURSIVE InsertByIndex(_, _)
InsertByIndex(e, sorted) ==
    IF sorted = <<>> THEN <<e>>
    ELSE IF DecimalValue(e[1]) < DecimalValue(Head(sorted)[1])
         THEN <<e>> \o sorted
         ELSE <<Head(sorted)>> \o InsertByIndex(e, Tail(sorted))

RECURSIVE SortByIndex(_)
SortByIndex(es) ==
    IF es = <<>> THEN <<>> ELSE InsertByIndex(Head(es), SortByIndex(Tail(es)))

ObjectEntries(entries) ==
    SortByIndex(SelectSeq(entries, IndexEntry)) \o SelectSeq(entries, NamedEntry)

(***************************************************************************)
(* URLSearchParams: append and toString                                    *)
(* (application/x-www-form-urlencoded serialisation).                      *)
(***************************************************************************)
Letters ==
    {"a", "b", "c", "d", "e", "f", "g", "h", "i", "j", "k", "l", "m", "n", "o", "p", "q", "r", "s", "t", "u", "v", "w", "x", "y",
     "z", "A", "B", "C", "D", "E", "F", "G", "H", "I", "J", "K", "L", "M", "N", "O", "P", "Q", "R", "S", "T", "U", "V", "W", "X", "Y", "Z"}

Unreserved == DigitSet \cup Letters \cup {"*", "-", ".", "_"}

PercentEncode(c) ==
    CASE c \in Unreserved -> <<c>>
      [] c = " " -> <<"+">>
      [] c = "&" -> <<"%", "2", "6">>
      [] c = "=" -> <<"%", "3", "D">>
      [] c = "+" -> <<"%", "2", "B">>
      [] c = "%" -> <<"%", "2", "5">>
      [] c = "?" -> <<"%", "3", "F">>
      [] c = "/" -> <<"%", "2", "F">>

UrlEncode(cs) == Flatten([i \in 1..Len(cs) |-> PercentEncode(cs[i])])

URLSearchParamsToString(pairs) ==
    Join([i \in 1..Len(pairs) |->
            UrlEncode(pairs[i][1]) \o <<"=">> \o UrlEncode(pairs[i][2])],
         <<"&">>)

\* the forEach of api.ts lines 39-43 / 215-219: append key=value unless the
\* value is undefined or null
\* variant: the filter is `if (value)`, which also drops empty strings
KeptEntry_truthy(e) == Truthy(e[2])

KeptEntry(e) == Defined(e[2])

AppendedPairs(entries) ==
    LET kept == SelectSeq(ObjectEntries(entries), KeptEntry)
    IN  [i \in 1..Len(kept) |-> <<kept[i][1], kept[i][2].chars>>]

API_BASE_URL == "http://localhost:8080/tdg/api"

\* URL of a request: base, endpoint and, when non-empty, "?" and the query
BuildUrl(endpoint, params) ==
    LET url == <<API_BASE_URL>> \o endpoint
    IN  IF Truthy(params)
        THEN LET queryString == URLSearchParamsToString(AppendedPairs(params.entries))
             IN  IF queryString # <<>> THEN url \o <<"?">> \o queryString ELSE url
        ELSE url

(***************************************************************************)
(* Request building: api.ts lines 33-75                                    *)
(***************************************************************************)
EmptyHeaders == [h \in {} |-> ""]

\* JSON.stringify of the request bodies the callers pass
JSONStringify(v) ==
    CASE v.t = "object" -> "{\"id\":\"" \o v.id \o "\"}"
      [] v.t = "string" -> "\"" \o v.s \o "\""
      [] v.t = "number" -> ToString(v.n)
      [] v.t = "boolean" -> IF v.b THEN "true" ELSE "false"
      [] v.t = "null" -> "null"

IsFormData(body) == body.t = "FormData"

RequestHeaders(headers, body) ==
    LET callerHeaders == IF headers = Undefined THEN EmptyHeaders ELSE headers.map
        requestHeaders == callerHeaders @@ ("Accept" :> "application/json")
    IN  IF Truthy(body) /\ ~IsFormData(body)
        THEN ("Content-Type" :> "application/json") @@ requestHeaders
        ELSE requestHeaders

RequestBody(body) ==
    IF Truthy(body)
    THEN IF IsFormData(body) THEN body ELSE Str(JSONStringify(body))
    ELSE Undefined

BuildRequest(endpoint, options) ==
    [url |-> BuildUrl(endpoint, options.params),
     method |-> options.method,
     headers |-> RequestHeaders(options.headers, options.body),
     credentials |-> "include",
     body |-> RequestBody(options.body)]

(***************************************************************************)
(* The transport: what `await fetch(...)` and the body readers can yield   *)
(***************************************************************************)
Rejected(thrown) == [kind |-> "reject", thrown |-> thrown]

ReasonPhrase(status) ==
    CASE status = 200 -> "OK"
      [] status = 204 -> "No Content"
      [] status = 400 -> "Bad Request"
      [] status = 500 -> "Internal Server Error"

Statuses == {200, 204, 400, 500}

\* values of the content-type response header (Null: header absent)
ContentTypes ==
    {Null, Str("application/json"), Str("application/json;charset=UTF-8"),
     Str("text/plain")}

BodyTexts ==
    {"", "null", "{\"content\":[]}", "{\"message\":\"name is required\"}",
     "{\"message\":\"\"}", "<html>oops</html>"}

\* a fetch rejection can carry any thrown value
ThrownValues ==
    {ErrorValue("TypeError", "Failed to fetch"), ErrorValue("Error", ""),
     Str("aborted")}

\* A response.  statusText is the reason phrase, or empty (HTTP/2 has none).
\* A 204 response has a null body.  bodyFails: the body stream errors while
\* it is read.
Responses ==
    {r \in [kind : {"response"}, status : Statuses,
            statusText : {""} \cup {ReasonPhrase(s) : s \in Statuses},
            contentType : ContentTypes, bodyText : BodyTexts,
            bodyFails : BOOLEAN] :
        /\ r.statusText \in {"", ReasonPhrase(r.status)}
        /\ r.status = 204 => (r.bodyText = "" /\ ~r.bodyFails)}

TransportOutcomes == Responses \cup {Rejected(v) : v \in ThrownValues}

\* response.ok
ResponseOk(r) == r.status >= 200 /\ r.status <= 299

Value(v) == [threw |-> FALSE, value |-> v]
Throw(v) == [threw |-> TRUE, value |-> v]

BodyReadError == ErrorValue("TypeError", "network error")

\* JSON.parse
JSONParse(text) ==
    CASE text = "null" -> Value(Null)
      [] text = "{\"content\":[]}" -> Value(Obj("page", Undefined))
      [] text = "{\"message\":\"name is required\"}"
            -> Value(Obj("error", Str("name is required")))
      [] text = "{\"message\":\"\"}" -> Value(Obj("error", Str("")))
      [] text = "" -> Throw(ErrorValue("SyntaxError", "Unexpected end of JSON input"))
      [] OTHER -> Throw(ErrorValue("SyntaxError", "Unexpected token < in JSON"))

\* await response.json() / response.text() / response.blob()
ResponseJson(r) == IF r.bodyFails THEN Throw(BodyReadError) ELSE JSONParse(r.bodyText)
ResponseText(r) == IF r.bodyFails THEN Throw(BodyReadError) ELSE Value(Str(r.bodyText))
ResponseBlob(r) ==
    IF r.bodyFails THEN Throw(BodyReadError)
    ELSE Value([t |-> "Blob", bytes |-> r.bodyText])

\* contentType && contentType.includes('application/json')
IsJson(contentType) ==
    /\ Truthy(contentType)
    /\ contentType.s \in {"application/json", "application/json;charset=UTF-8"}

(***************************************************************************)
(* What an async function delivers to its caller                           *)
(***************************************************************************)
Returned(v, log) == [kind |-> "returned", value |-> v, console |-> log]
Threw(v, log) == [kind |-> "threw", value |-> v, console |-> log]

\* error instanceof Error ? error.message : 'Network error'
ErrorMessage(error) ==
    IF error.t = "Error" THEN Str(error.message) ELSE Str("Network error")

(***************************************************************************)
(* apiRequest after `await fetch`: api.ts lines 77-107                     *)
(***************************************************************************)
\* variant: the catch block rethrows instead of returning a result
ApiRequestCatch_rethrows(error) == Threw(error, <<"API request failed:">>)

ApiRequestCatch(error) ==
    Returned([data |-> Undefined, error |-> ErrorMessage(error), status |-> 0],
             <<"API request failed:">>)

\* variant: the decoded body is returned as data whatever response.ok is
ApiRequestResponse_keepsData(response) ==
    LET isJson == IsJson(response.contentType)
        read == IF isJson THEN ResponseJson(response)
                ELSE IF response.status # 204 THEN ResponseText(response)
                ELSE Value(Null)
    IN  IF read.threw THEN ApiRequestCatch(read.value)
        ELSE Returned(
                [data |-> read.value,
                 error |-> IF ResponseOk(response) THEN Undefined
                           ELSE Or(OptMessage(read.value), Str(response.statusText)),
                 status |-> response.status],
                <<>>)

\* variant: a body that cannot be read or decoded is reported under the
\* response's own status instead of going to the catch block
ApiRequestResponse_keepsStatus(response) ==
    LET isJson == IsJson(response.contentType)
        read == IF isJson THEN ResponseJson(response)
                ELSE IF response.status # 204 THEN ResponseText(response)
                ELSE Value(Null)
    IN  IF read.threw
        THEN Returned([data |-> Undefined, error |-> ErrorMessage(read.value),
                       status |-> response.status], <<>>)
        ELSE Returned(
                [data |-> IF ResponseOk(response) THEN read.value ELSE Undefined,
                 error |-> IF ResponseOk(response) THEN Undefined
                           ELSE Or(OptMessage(read.value), Str(response.statusText)),
                 status |-> response.status],
                <<>>)

\* variant: the body is always read as text, never decoded as JSON
ApiRequestResponse_textOnly(response) ==
    LET read == IF response.status # 204 THEN ResponseText(response)
                ELSE Value(Null)
    IN  IF read.threw THEN ApiRequestCatch(read.value)
        ELSE Returned(
                [data |-> IF ResponseOk(response) THEN read.value ELSE Undefined,
                 error |-> IF ResponseOk(response) THEN Undefined
                           ELSE Or(OptMessage(read.value), Str(response.statusText)),
                 status |-> response.status],
                <<>>)

ApiRequestResponse(response) ==
    LET isJson == IsJson(response.contentType)
        read == IF isJson THEN ResponseJson(response)
                ELSE IF response.status # 204 THEN ResponseText(response)
                ELSE Value(Null)
    IN  IF read.threw THEN ApiRequestCatch(read.value)
        ELSE LET data == read.value
             IN  Returned(
                    [data |-> IF ResponseOk(response) THEN data ELSE Undefined,
                     error |-> IF ResponseOk(response) THEN Undefined
                               ELSE Or(OptMessage(data), Str(response.statusText)),
                     status |-> response.status],
                    <<>>)

ApiRequestOutcome(t) ==
    IF t.kind = "reject" THEN ApiRequestCatch(t.thrown)
    ELSE ApiRequestResponse(t)

(***************************************************************************)
(* downloadFile after `await fetch`: api.ts lines 226-249.                 *)
(* hostOk: window.URL.createObjectURL succeeds (it throws where the host   *)
(* runtime does not provide it).  link.click() is the save request.        *)
(***************************************************************************)
Download(result, saves) == [result |-> result, saves |-> saves]

DownloadSteps(t, filename, hostOk, prefix) ==
    LET catch == Download(Returned(Bool(FALSE), <<prefix>>), <<>>)
    IN  IF t.kind = "reject" THEN catch
        ELSE IF ~ResponseOk(t) THEN catch
        ELSE IF ResponseBlob(t).threw THEN catch
        ELSE IF ~hostOk THEN catch
        ELSE Download(Returned(Bool(TRUE), <<>>), <<filename>>)

\* variant: the `!response.ok` check is missing
DownloadFileOutcome_noOkCheck(t, filename, hostOk) ==
    LET catch == Download(Returned(Bool(FALSE), <<"File download failed:">>), <<>>)
    IN  IF t.kind = "reject" THEN catch
        ELSE IF ResponseBlob(t).threw THEN catch
        ELSE IF ~hostOk THEN catch
        ELSE Download(Returned(Bool(TRUE), <<>>), <<filename>>)

DownloadFileOutcome(t, filename, hostOk) ==
    DownloadSteps(t, filename, hostOk, "File download failed:")

(***************************************************************************)
(* State                                                                   *)
(***************************************************************************)
NoArgs == [op |-> "none"]
NoRequest == [method |-> "none"]
NoTransport == [kind |-> "none"]
NoOutcome == [kind |-> "none"]
Idle == [phase |-> "idle"]

Init ==
    /\ args = NoArgs
    /\ inflight = NoRequest
    /\ frame = Idle
    /\ transport = NoTransport
    /\ outcome = NoOutcome
    /\ saveRequests = <<>>
    /\ consoleLog = <<>>

\* An exported function is entered and runs up to its call of
\* fetch(url, init).  fn: the function holding the fetch; op: the exported
\* function the caller invoked; filename: what a download saves under.
Frame(fn, op, filename) ==
    [phase |-> "issued", fn |-> fn, op |-> op, filename |-> filename]

\* a caller can enter a function of the client when no call is in progress
CanCall == frame.phase = "idle"

Issue(a, fn, filename, request) ==
    /\ CanCall
    /\ args' = a
    /\ inflight' = request
    /\ frame' = Frame(fn, a.op, filename)
    /\ UNCHANGED <<transport, outcome, saveRequests, consoleLog>>

\* fetch takes the request; the function is suspended at its await.
fetchTakesRequest ==
    /\ frame.phase = "issued"
    /\ args' = NoArgs
    /\ inflight' = NoRequest
    /\ frame' = [frame EXCEPT !.phase = "awaiting"]
    /\ UNCHANGED <<transport, outcome, saveRequests, consoleLog>>

\* The transport settles and the suspended function runs to completion.
Resume(t, o, saves) ==
    /\ frame.phase = "awaiting"
    /\ frame' = [frame EXCEPT !.phase = "settled"]
    /\ transport' = t
    /\ outcome' = [kind |-> o.kind, value |-> o.value]
    /\ saveRequests' = saves
    /\ consoleLog' = o.console
    /\ UNCHANGED <<args, inflight>>

\* The caller's await delivers the outcome; nothing of the call is retained.
callerResumes ==
    /\ frame.phase = "settled"
    /\ args' = NoArgs
    /\ inflight' = NoRequest
    /\ frame' = Idle
    /\ transport' = NoTransport
    /\ outcome' = NoOutcome
    /\ saveRequests' = <<>>
    /\ consoleLog' = <<>>

(***************************************************************************)
(* Arguments the callers pass                                              *)
(***************************************************************************)
ParamKeys == {<<"a">>, <<"2">>, <<"1">>}
ParamValues == {Undefined, Null, Chars(<<>>), Chars(<<"1">>), Chars(<<"x", " ", "&">>)}

UniqueKeys(es) == \A i, j \in 1..Len(es) : es[i][1] = es[j][1] => i = j

EntrySeqs ==
    {es \in UNION {[1..n -> ParamKeys \X ParamValues] : n \in 0..MaxParams} :
        UniqueKeys(es)}

Map(entries) == [t |-> "object", entries |-> entries]
ParamsMaps == {Undefined} \cup {Map(es) : es \in EntrySeqs}

Headers(map) == [t |-> "object", map |-> map]
CallerHeaders ==
    {Undefined, Headers("Content-Type" :> "text/plain"),
     Headers("Accept" :> "text/csv"), Headers("X-Trace" :> "1")}

FormData(entries) == [t |-> "FormData", entries |-> entries]
File(name) == [t |-> "File", name |-> name]

Bodies ==
    {Undefined, Null, Num(0), Str(""), Bool(FALSE), Str("text"),
     Obj("schedule", Undefined), FormData(<<<<Str("file"), File("a.pdf")>>>>)}

Methods == {"GET", "POST", "PUT", "DELETE"}
Endpoints == {<<"/", "t", "e", "m", "p", "l", "a", "t", "e", "s">>, <<"/", "s", "c", "h", "e", "d", "u", "l", "e", "s">>}
Filenames == {<<"o", "u", "t", ".", "c", "s", "v">>}

(***************************************************************************)
(* api.ts: the gateway                                                     *)
(***************************************************************************)
ApiRequestCall(op, endpoint, options) ==
    Issue([op |-> op, endpoint |-> endpoint, options |-> options],
          "apiRequest", <<>>, BuildRequest(endpoint, options))

apiRequest ==
    /\ CanCall
    /\ \E endpoint \in Endpoints, method \in Methods, headers \in CallerHeaders,
          body \in Bodies, params \in ParamsMaps :
        ApiRequestCall("apiRequest", endpoint,
            [method |-> method, headers |-> headers, body |-> body,
             params |-> params])

apiRequestSettles ==
    /\ frame.phase = "awaiting"
    /\ frame.fn = "apiRequest"
    /\ \E t \in TransportOutcomes : Resume(t, ApiRequestOutcome(t), <<>>)

GetCall(op, endpoint, params) ==
    ApiRequestCall(op, endpoint,
        [method |-> "GET", headers |-> Undefined, body |-> Undefined,
         params |-> params])

PostCall(op, endpoint, data, params) ==
    ApiRequestCall(op, endpoint,
        [method |-> "POST", headers |-> Undefined, body |-> data,
         params |-> params])

PutCall(op, endpoint, data) ==
    ApiRequestCall(op, endpoint,
        [method |-> "PUT", headers |-> Undefined, body |-> data,
         params |-> Undefined])

DelCall(op, endpoint) ==
    ApiRequestCall(op, endpoint,
        [method |-> "DELETE", headers |-> Undefined, body |-> Undefined,
         params |-> Undefined])

get ==
    /\ CanCall
    /\ \E endpoint \in Endpoints, params \in ParamsMaps :
        GetCall("get", endpoint, params)

post ==
    /\ CanCall
    /\ \E endpoint \in Endpoints, data \in Bodies, params \in {Undefined, Map(<<>>)} :
        PostCall("post", endpoint, data, params)

put ==
    /\ CanCall
    /\ \E endpoint \in Endpoints, data \in Bodies : PutCall("put", endpoint, data)

del ==
    /\ CanCall
    /\ \E endpoint \in Endpoints : DelCall("del", endpoint)

\* uploadFile: fieldName defaults to 'file'; additionalData entries follow
UploadFormData(file, fieldName, additionalData) ==
    LET name == IF fieldName = Undefined THEN Str("file") ELSE fieldName
        extra == IF Truthy(additionalData)
                 THEN ObjectEntries(additionalData.entries) ELSE <<>>
    IN  FormData(<<<<name, file>>>> \o extra)

UploadFileCall(op, endpoint, file, fieldName, additionalData) ==
    ApiRequestCall(op, endpoint,
        [method |-> "POST", headers |-> Undefined,
         body |-> UploadFormData(file, fieldName, additionalData),
         params |-> Undefined])

uploadFile ==
    /\ CanCall
    /\ \E endpoint \in Endpoints, fieldName \in {Undefined, Str("document")},
          additionalData \in {Undefined, Map(<<>>), Map(<<<<<<"k">>, Chars(<<"v">>)>>>>)} :
        UploadFileCall("uploadFile", endpoint, File("a.pdf"), fieldName,
                       additionalData)

DownloadFileCall(op, endpoint, filename, params) ==
    Issue([op |-> op, endpoint |-> endpoint, filename |-> filename,
           params |-> params],
          "downloadFile", filename,
          [url |-> BuildUrl(endpoint, params), method |-> "GET",
           headers |-> EmptyHeaders, credentials |-> "include",
           body |-> Undefined])

downloadFile ==
    /\ CanCall
    /\ \E endpoint \in Endpoints, filename \in Filenames, params \in ParamsMaps :
        DownloadFileCall("downloadFile", endpoint, filename, params)

downloadFileSettles ==
    /\ frame.phase = "awaiting"
    /\ frame.fn = "downloadFile"
    /\ \E t \in TransportOutcomes, hostOk \in BOOLEAN :
        LET d == DownloadFileOutcome(t, frame.filename, hostOk)
        IN  Resume(t, d.result, d.saves)

(***************************************************************************)
(* generationApi (api.ts lines 252-334)                                    *)
(***************************************************************************)
GenerationRequest(templateId, rowCount, outputFormat, filename) ==
    [t |-> "object", id |-> "GenerationRequest" \o ToString(templateId),
     message |-> Undefined, templateId |-> templateId, rowCount |-> rowCount,
     outputFormat |-> outputFormat, filename |-> filename]

GenerationRequests ==
    {GenerationRequest(id, rowCount, outputFormat, filename) :
        id \in {1, 12}, rowCount \in {Undefined, Num(0), Num(5)},
        outputFormat \in {Undefined, Chars(<<"J", "S", "O", "N">>)},
        filename \in {Undefined, Chars(<<>>), Chars(<<"o", "u", "t">>)}}

\* the non-2xx branch shared by generateData, checkAnalysisStatus and
\* getExtractedVariables: statusText unless the body is JSON with a truthy
\* message (a failing response.json() or property access is swallowed)
StatusErrorMessage(response) ==
    LET errorMessage == Str(response.statusText)
        read == ResponseJson(response)
    IN  IF read.threw THEN errorMessage
        ELSE IF ~Defined(read.value) THEN errorMessage
        ELSE Or(OptMessage(read.value), errorMessage)

\* generateData after `await fetch`: no try/catch around fetch or blob()
GenerateDataOutcome(t) ==
    IF t.kind = "reject" THEN Threw(t.thrown, <<>>)
    ELSE IF ~ResponseOk(t)
    THEN Returned([data |-> Undefined, error |-> StatusErrorMessage(t),
                   status |-> t.status], <<>>)
    ELSE LET blob == ResponseBlob(t)
         IN  IF blob.threw THEN Threw(blob.value, <<>>)
             ELSE Returned([data |-> blob.value, error |-> Undefined,
                            status |-> t.status], <<>>)

generateData ==
    /\ CanCall
    /\ \E request \in GenerationRequests :
        Issue([op |-> "generateData", request |-> request],
              "generateData", <<>>,
              [url |-> <<"/", "a", "p", "i", "/", "g", "e", "n", "e", "r", "a", "t", "e">>, method |-> "POST",
               headers |-> ("Content-Type" :> "application/json"),
               credentials |-> "same-origin",
               body |-> Str(JSONStringify(request))])

generateDataSettles ==
    /\ frame.phase = "awaiting"
    /\ frame.fn = "generateData"
    /\ \E t \in TransportOutcomes : Resume(t, GenerateDataOutcome(t), <<>>)

\* String.prototype.toLowerCase on the output formats
ToLowerCase(cs) ==
    [i \in 1..Len(cs) |->
        CASE cs[i] = "C" -> "c" [] cs[i] = "S" -> "s" [] cs[i] = "V" -> "v"
          [] cs[i] = "J" -> "j" [] cs[i] = "O" -> "o" [] cs[i] = "N" -> "n"
          [] cs[i] = "X" -> "x" [] cs[i] = "M" -> "m" [] cs[i] = "L" -> "l"
          [] OTHER -> cs[i]]

DownloadGeneratedFilename(request) ==
    LET format == IF request.outputFormat = Undefined THEN Chars(<<"c", "s", "v">>)
                  ELSE Or(Chars(ToLowerCase(request.outputFormat.chars)), Chars(<<"c", "s", "v">>))
    IN  Or(request.filename, Chars(<<"g", "e", "n", "e", "r", "a", "t", "e", "d", "_", "d", "a", "t", "a">>)).chars \o <<".">> \o format.chars

DownloadGeneratedParams(request) ==
    Map(<<<<<<"t", "e", "m", "p", "l", "a", "t", "e", "I", "d">>, Chars(NumberToString(request.templateId))>>>>
        \o (IF Truthy(request.rowCount)
            THEN <<<<<<"r", "o", "w", "C", "o", "u", "n", "t">>, Chars(NumberToString(request.rowCount.n))>>>>
            ELSE <<>>)
        \o (IF Truthy(request.outputFormat)
            THEN <<<<<<"f", "o", "r", "m", "a", "t">>, request.outputFormat>>>>
            ELSE <<>>))

downloadGeneratedData ==
    /\ CanCall
    /\ \E request \in GenerationRequests :
        DownloadFileCall("downloadGeneratedData",
            <<"/", "g", "e", "n", "e", "r", "a", "t", "e", "/">> \o NumberToString(request.templateId),
            DownloadGeneratedFilename(request), DownloadGeneratedParams(request))

generateDataPreview ==
    /\ CanCall
    /\ \E templateId \in {1, 12}, rowCount \in {Undefined, Num(3)},
          outputFormat \in {Undefined, Chars(<<"X", "M", "L">>)} :
        PostCall("generateDataPreview", <<"/", "g", "e", "n", "e", "r", "a", "t", "e", "/", "p", "r", "e", "v", "i", "e", "w">>,
            [t |-> "object", id |-> "preview" \o ToString(templateId),
             message |-> Undefined, templateId |-> templateId,
             rowCount |-> IF rowCount = Undefined THEN Num(5) ELSE rowCount,
             outputFormat |-> IF outputFormat = Undefined THEN Chars(<<"C", "S", "V">>)
                              ELSE outputFormat],
            Undefined)

(***************************************************************************)
(* batchApi.ts                                                             *)
(***************************************************************************)
Ids == {<<"7">>, <<"4", "2">>}

generateBatch ==
    /\ CanCall
    /\ \E request \in {Obj("batch1", Undefined), Obj("batch2", Undefined)} :
        PostCall("generateBatch", <<"/", "b", "a", "t", "c", "h", "/", "g", "e", "n", "e", "r", "a", "t", "e">>, request, Undefined)

DownloadBatchResultsOutcome(t, filename, hostOk) ==
    DownloadSteps(t, filename, hostOk, "Batch download failed:")

downloadBatchResults ==
    /\ CanCall
    /\ \E batchId \in Ids :
        LET filename == <<"b", "a", "t", "c", "h", "_">> \o batchId \o <<".", "z", "i", "p">>
        IN  Issue([op |-> "downloadBatchResults", batchId |-> batchId],
                  "downloadBatchResults", filename,
                  [url |-> <<"/", "a", "p", "i", "/", "b", "a", "t", "c", "h", "/", "d", "o", "w", "n", "l", "o", "a", "d", "/">> \o batchId, method |-> "GET",
                   headers |-> EmptyHeaders, credentials |-> "include",
                   body |-> Undefined])

downloadBatchResultsSettles ==
    /\ frame.phase = "awaiting"
    /\ frame.fn = "downloadBatchResults"
    /\ \E t \in TransportOutcomes, hostOk \in BOOLEAN :
        LET d == DownloadBatchResultsOutcome(t, frame.filename, hostOk)
        IN  Resume(t, d.result, d.saves)

(***************************************************************************)
(* templateApi (part_000)                                                  *)
(***************************************************************************)
Templates == {Obj("template1", Undefined), Obj("template2", Undefined)}
NumericIds == {1, 12}

\* queryParams of getTemplates / getSchedules: page, size, sort (, status)
ListQueryParams(params) ==
    (IF params.page # Undefined
        THEN <<<<<<"p", "a", "g", "e">>, Chars(NumberToString(params.page.n))>>>> ELSE <<>>)
    \o (IF params.size # Undefined
        THEN <<<<<<"s", "i", "z", "e">>, Chars(NumberToString(params.size.n))>>>> ELSE <<>>)
    \o (IF Truthy(params.sort) THEN <<<<<<"s", "o", "r", "t">>, params.sort>>>> ELSE <<>>)

ListParams ==
    [page : {Undefined, Num(0)}, size : {Undefined, Num(10)},
     sort : {Undefined, Chars(<<>>), Chars(<<"n", "a", "m", "e">>)},
     status : {Undefined, Chars(<<"A", "C", "T", "I", "V", "E">>)}]

getTemplates ==
    /\ CanCall
    /\ \E params \in ListParams :
        GetCall("getTemplates", <<"/", "t", "e", "m", "p", "l", "a", "t", "e", "s">>, Map(ListQueryParams(params)))

getTemplateById ==
    /\ CanCall
    /\ \E id \in NumericIds :
        GetCall("getTemplateById", <<"/", "t", "e", "m", "p", "l", "a", "t", "e", "s", "/">> \o NumberToString(id), Undefined)

createTemplate ==
    /\ CanCall
    /\ \E template \in Templates :
        PostCall("createTemplate", <<"/", "t", "e", "m", "p", "l", "a", "t", "e", "s">>, template, Undefined)

updateTemplate ==
    /\ CanCall
    /\ \E id \in NumericIds, template \in Templates :
        PutCall("updateTemplate", <<"/", "t", "e", "m", "p", "l", "a", "t", "e", "s", "/">> \o NumberToString(id), template)

deleteTemplate ==
    /\ CanCall
    /\ \E id \in NumericIds :
        DelCall("deleteTemplate", <<"/", "t", "e", "m", "p", "l", "a", "t", "e", "s", "/">> \o NumberToString(id))

searchTemplates ==
    /\ CanCall
    /\ \E searchTerm \in {Chars(<<>>), Chars(<<"a", " ", "b">>)} :
        GetCall("searchTemplates", <<"/", "t", "e", "m", "p", "l", "a", "t", "e", "s", "/", "s", "e", "a", "r", "c", "h">>,
                Map(<<<<<<"n", "a", "m", "e">>, searchTerm>>>>))

getDataTypes ==
    /\ CanCall
    /\ GetCall("getDataTypes", <<"/", "t", "e", "m", "p", "l", "a", "t", "e", "s", "/", "d", "a", "t", "a", "t", "y", "p", "e", "s">>, Undefined)

(***************************************************************************)
(* scheduleApi (part_001)                                                  *)
(***************************************************************************)
Schedules == {Obj("schedule1", Undefined), Obj("schedule2", Undefined)}

ScheduleQueryParams(params) ==
    ListQueryParams(params)
    \o (IF Truthy(params.status) THEN <<<<<<"s", "t", "a", "t", "u", "s">>, params.status>>>> ELSE <<>>)

getSchedules ==
    /\ CanCall
    /\ \E params \in ListParams :
        GetCall("getSchedules", <<"/", "s", "c", "h", "e", "d", "u", "l", "e", "s">>, Map(ScheduleQueryParams(params)))

getScheduleById ==
    /\ CanCall
    /\ \E id \in NumericIds :
        GetCall("getScheduleById", <<"/", "s", "c", "h", "e", "d", "u", "l", "e", "s", "/">> \o NumberToString(id), Undefined)

createSchedule ==
    /\ CanCall
    /\ \E schedule \in Schedules :
        PostCall("createSchedule", <<"/", "s", "c", "h", "e", "d", "u", "l", "e", "s">>, schedule, Undefined)

updateSchedule ==
    /\ CanCall
    /\ \E id \in NumericIds, schedule \in Schedules :
        PutCall("updateSchedule", <<"/", "s", "c", "h", "e", "d", "u", "l", "e", "s", "/">> \o NumberToString(id), schedule)

deleteSchedule ==
    /\ CanCall
    /\ \E id \in NumericIds :
        DelCall("deleteSchedule", <<"/", "s", "c", "h", "e", "d", "u", "l", "e", "s", "/">> \o NumberToString(id))

getSchedulesForTemplate ==
    /\ CanCall
    /\ \E templateId \in NumericIds :
        GetCall("getSchedulesForTemplate",
                <<"/", "s", "c", "h", "e", "d", "u", "l", "e", "s", "/", "b", "y", "T", "e", "m", "p", "l", "a", "t", "e", "/">> \o NumberToString(templateId), Undefined)

getSchedulesByStatus ==
    /\ CanCall
    /\ \E status \in {<<"A", "C", "T", "I", "V", "E">>, <<"P", "A", "U", "S", "E", "D">>} :
        GetCall("getSchedulesByStatus", <<"/", "s", "c", "h", "e", "d", "u", "l", "e", "s", "/", "b", "y", "S", "t", "a", "t", "u", "s", "/">> \o status, Undefined)

activateSchedule ==
    /\ CanCall
    /\ \E id \in NumericIds :
        PostCall("activateSchedule",
                 <<"/", "s", "c", "h", "e", "d", "u", "l", "e", "s", "/">> \o NumberToString(id) \o <<"/", "a", "c", "t", "i", "v", "a", "t", "e">>,
                 Undefined, Undefined)

pauseSchedule ==
    /\ CanCall
    /\ \E id \in NumericIds :
        PostCall("pauseSchedule",
                 <<"/", "s", "c", "h", "e", "d", "u", "l", "e", "s", "/">> \o NumberToString(id) \o <<"/", "p", "a", "u", "s", "e">>,
                 Undefined, Undefined)

executeScheduleNow ==
    /\ CanCall
    /\ \E id \in NumericIds :
        PostCall("executeScheduleNow",
                 <<"/", "s", "c", "h", "e", "d", "u", "l", "e", "s", "/">> \o NumberToString(id) \o <<"/", "e", "x", "e", "c", "u", "t", "e">>,
                 Undefined, Undefined)

getNextExecutionTimes ==
    /\ CanCall
    /\ \E cronExpression \in {Chars(<<"*", " ", "*">>)}, count \in {Undefined, Num(3)} :
        GetCall("getNextExecutionTimes", <<"/", "s", "c", "h", "e", "d", "u", "l", "e", "s", "/", "n", "e", "x", "t", "E", "x", "e", "c", "u", "t", "i", "o", "n", "s">>,
            Map(<<<<<<"c", "r", "o", "n", "E", "x", "p", "r", "e", "s", "s", "i", "o", "n">>, cronExpression>>,
                  <<<<"c", "o", "u", "n", "t">>, Chars(NumberToString(
                        IF count = Undefined THEN 5 ELSE count.n))>>>>))

(***************************************************************************)
(* pdfApi (part_002)                                                       *)
(***************************************************************************)
analyzePdf ==
    /\ CanCall
    /\ \E file \in {File("a.pdf"), File("b.pdf")} :
        UploadFileCall("analyzePdf", <<"/", "p", "d", "f", "/", "a", "n", "a", "l", "y", "z", "e">>, file, Undefined, Undefined)

\* the try/catch bodies of checkAnalysisStatus and getExtractedVariables
PdfStatusSteps(t, prefix) ==
    LET catch(error) ==
            Returned([data |-> Undefined, error |-> ErrorMessage(error),
                      status |-> 0], <<prefix>>)
    IN  IF t.kind = "reject" THEN catch(t.thrown)
        ELSE IF ~ResponseOk(t)
        THEN Returned([data |-> Undefined, error |-> StatusErrorMessage(t),
                       status |-> t.status], <<>>)
        ELSE LET data == ResponseJson(t)
             IN  IF data.threw THEN catch(data.value)
                 ELSE Returned([data |-> data.value, error |-> Undefined,
                                status |-> t.status], <<>>)

CheckAnalysisStatusOutcome(t) ==
    PdfStatusSteps(t, "Error checking PDF analysis status:")

GetExtractedVariablesOutcome(t) ==
    PdfStatusSteps(t, "Error getting extracted variables:")

PdfFetch(op, path, analysisId) ==
    Issue([op |-> op, analysisId |-> analysisId], op, <<>>,
          [url |-> path \o analysisId, method |-> "GET",
           headers |-> EmptyHeaders, credentials |-> "include",
           body |-> Undefined])

checkAnalysisStatus ==
    /\ CanCall
    /\ \E analysisId \in Ids :
        PdfFetch("checkAnalysisStatus", <<"/", "a", "p", "i", "/", "p", "d", "f", "/", "s", "t", "a", "t", "u", "s", "/">>, analysisId)

checkAnalysisStatusSettles ==
    /\ frame.phase = "awaiting"
    /\ frame.fn = "checkAnalysisStatus"
    /\ \E t \in TransportOutcomes : Resume(t, CheckAnalysisStatusOutcome(t), <<>>)

getExtractedVariables ==
    /\ CanCall
    /\ \E analysisId \in Ids :
        PdfFetch("getExtractedVariables", <<"/", "a", "p", "i", "/", "p", "d", "f", "/", "v", "a", "r", "i", "a", "b", "l", "e", "s", "/">>, analysisId)

getExtractedVariablesSettles ==
    /\ frame.phase = "awaiting"
    /\ frame.fn = "getExtractedVariables"
    /\ \E t \in TransportOutcomes :
        Resume(t, GetExtractedVariablesOutcome(t), <<>>)

Next ==
    \/ apiRequest
    \/ get
    \/ post
    \/ put
    \/ del
    \/ uploadFile
    \/ downloadFile
    \/ generateData
    \/ downloadGeneratedData
    \/ generateDataPreview
    \/ generateBatch
    \/ downloadBatchResults
    \/ getTemplates
    \/ getTemplateById
    \/ createTemplate
    \/ updateTemplate
    \/ deleteTemplate
    \/ searchTemplates
    \/ getDataTypes
    \/ getSchedules
    \/ getScheduleById
    \/ createSchedule
    \/ updateSchedule
    \/ deleteSchedule
    \/ getSchedulesForTemplate
    \/ getSchedulesByStatus
    \/ activateSchedule
    \/ pauseSchedule
    \/ executeScheduleNow
    \/ getNextExecutionTimes
    \/ analyzePdf
    \/ checkAnalysisStatus
    \/ getExtractedVariables
    \/ fetchTakesRequest
    \/ apiRequestSettles
    \/ downloadFileSettles
    \/ generateDataSettles
    \/ downloadBatchResultsSettles
    \/ checkAnalysisStatusSettles
    \/ getExtractedVariablesSettles
    \/ callerResumes

Spec == Init /\ [][Next]_vars

(***************************************************************************)
(* Properties of the gateway's results                                     *)
(***************************************************************************)
Settled(fn) == frame.phase = "settled" /\ frame.fn = fn
GotResponse == transport.kind = "response"
Result == outcome.value

\* a field of a result counts as present when it is neither undefined nor null
Present(v) == Defined(v)
NonEmptyString(v) == v.t = "string" /\ v.s # ""

IsApiResponse(v) ==
    /\ DOMAIN v = {"data", "error", "status"}
    /\ v.status \in Nat
    /\ v.error.t \in {"undefined", "string"}

\* the body of the response was read and decoded as its content type promises
BodyDecodes(r) ==
    /\ ~r.bodyFails
    /\ IsJson(r.contentType) => ~JSONParse(r.bodyText).threw

DecodedBody(r) ==
    IF IsJson(r.contentType) THEN JSONParse(r.bodyText).value
    ELSE IF r.status # 204 THEN Str(r.bodyText) ELSE Null

\* C1: every call of apiRequest (direct or through get, post, put, del,
\* uploadFile and the wrappers built on them) completes by returning an
\* ApiResponse, whatever the transport did: rejection, any status, a body
\* that cannot be read or decoded.  Nothing is thrown to the caller.
C1_ApiRequestNeverThrows ==
    Settled("apiRequest") =>
        /\ outcome.kind = "returned"
        /\ IsApiResponse(Result)

C1_Witness ==
    /\ Settled("apiRequest")
    /\ GotResponse
    /\ IsJson(transport.contentType)
    /\ JSONParse(transport.bodyText).threw
    /\ outcome.kind = "returned"
    /\ Result.status = 0

\* C2: for a response whose status is outside 2xx the result has no data and
\* a non-empty error, which is the message field of the decoded structured
\* body when that field is available and the statusText otherwise.
MessageAvailable(r) ==
    /\ IsJson(r.contentType)
    /\ BodyDecodes(r)
    /\ Defined(OptMessage(JSONParse(r.bodyText).value))

C2_Non2xxHasNonEmptyError ==
    (Settled("apiRequest") /\ GotResponse /\ ~ResponseOk(transport)) =>
        /\ outcome.kind = "returned"
        /\ ~Present(Result.data)
        /\ NonEmptyString(Result.error)
        /\ Result.error = IF MessageAvailable(transport)
                          THEN OptMessage(JSONParse(transport.bodyText).value)
                          ELSE Str(transport.statusText)

\* C3: a 204 response, whatever content type it declares, yields a success
\* result: data absent, error absent, status 204.
C3_NoContentIsSuccess ==
    (Settled("apiRequest") /\ GotResponse /\ transport.status = 204) =>
        /\ outcome.kind = "returned"
        /\ ~Present(Result.data)
        /\ ~Present(Result.error)
        /\ Result.status = transport.status

\* C4 (as stated): for every 2xx response that declares a JSON content type
\* the result's data is the decoded JSON body, error is absent and status is
\* the response status.
C4_Original ==
    (Settled("apiRequest") /\ GotResponse /\ ResponseOk(transport)
        /\ IsJson(transport.contentType)) =>
        /\ outcome.kind = "returned"
        /\ BodyDecodes(transport)
        /\ Result.data = JSONParse(transport.bodyText).value
        /\ ~Present(Result.error)
        /\ Result.status = transport.status

\* C4 (amended): for every 2xx response that declares a JSON content type
\* and whose body is read and decodes as JSON, the result's data is the
\* decoded JSON body, error is absent and status is the response status.
C4_JsonSuccess ==
    (Settled("apiRequest") /\ GotResponse /\ ResponseOk(transport)
        /\ IsJson(transport.contentType) /\ BodyDecodes(transport)) =>
        /\ outcome.kind = "returned"
        /\ Result.data = JSONParse(transport.bodyText).value
        /\ ~Present(Result.error)
        /\ Result.status = transport.status

C4_Witness ==
    /\ Settled("apiRequest")
    /\ frame.op = "getTemplates"
    /\ GotResponse
    /\ transport.status = 200
    /\ IsJson(transport.contentType)
    /\ Result.data = Obj("page", Undefined)
    /\ Result.error = Undefined

\* C5: when fetch rejects, with any thrown value, the result has status 0,
\* a non-empty error and no data.
C5_TransportFailure ==
    (Settled("apiRequest") /\ transport.kind = "reject") =>
        /\ outcome.kind = "returned"
        /\ Result.status = 0
        /\ NonEmptyString(Result.error)
        /\ ~Present(Result.data)

\* C6: in every result of apiRequest data and error are never both present;
\* an unsuccessful result (transport failure, undecodable body, non-2xx
\* status) has an error; and neither is present only for a successful call
\* whose body decoded to no content.
Successful ==
    GotResponse /\ ResponseOk(transport) /\ BodyDecodes(transport)

C6_DataXorError ==
    (Settled("apiRequest") /\ outcome.kind = "returned") =>
        /\ ~(Present(Result.data) /\ Present(Result.error))
        /\ ~Successful => Present(Result.error)
        /\ (~Present(Result.data) /\ ~Present(Result.error)) =>
                (Successful /\ DecodedBody(transport) = Null)

C6_Witness ==
    /\ Settled("apiRequest")
    /\ outcome.kind = "returned"
    /\ GotResponse
    /\ transport.status = 204
    /\ ~Present(Result.data)
    /\ ~Present(Result.error)

\* C11: when a response is obtained but its body cannot be read or decoded
\* as its declared content type promises (a JSON content type with a body
\* that is not JSON, or empty), the result has the shape of a transport
\* failure whatever the response's status code was: status 0, error
\* present, data absent, and the same diagnostic is written.
C11_DecodeFailureIsTransportFailure ==
    (Settled("apiRequest") /\ GotResponse /\ ~BodyDecodes(transport)) =>
        /\ outcome.kind = "returned"
        /\ Result.status = 0
        /\ Present(Result.error)
        /\ ~Present(Result.data)
        /\ consoleLog = <<"API request failed:">>

C11_Witness ==
    /\ Settled("apiRequest")
    /\ GotResponse
    /\ transport.status = 500
    /\ IsJson(transport.contentType)
    /\ transport.bodyText = "<html>oops</html>"
    /\ ~transport.bodyFails
    /\ Result.status = 0
    /\ Result.error = Str("Unexpected token < in JSON")
    /\ Result.data = Undefined

(***************************************************************************)
(* Properties of the issued request                                        *)
(***************************************************************************)
Issued(fn) == frame.phase = "issued" /\ frame.fn = fn

\* C7: the Content-Type of the request apiRequest issues is determined by
\* the body alone, whatever headers the caller supplies: a FormData body is
\* sent unmodified with no Content-Type header; any other body that is
\* present is sent JSON-serialised with Content-Type application/json; with
\* no body, no body is sent and no Content-Type header is added.
HasContentType(headers) == "Content-Type" \in DOMAIN headers

CallerContentType(headers) ==
    IF headers # Undefined /\ HasContentType(headers.map)
    THEN {headers.map["Content-Type"]} ELSE {}

SentContentType(headers) ==
    IF HasContentType(headers) THEN {headers["Content-Type"]} ELSE {}

C7_ContentTypeFollowsBody ==
    Issued("apiRequest") =>
        LET body == args.options.body
        IN  IF IsFormData(body)
            THEN /\ inflight.body = body
                 /\ ~HasContentType(inflight.headers)
            ELSE IF Present(body)
            THEN /\ inflight.body = Str(JSONStringify(body))
                 /\ SentContentType(inflight.headers) = {"application/json"}
            ELSE /\ inflight.body = Undefined
                 /\ SentContentType(inflight.headers)
                        = CallerContentType(args.options.headers)

\* Reading a query string back: split on "&", split each pair at its first
\* "=", undo the form-urlencoding.
RECURSIVE SplitOn(_, _)
SplitOn(cs, sep) ==
    IF \A i \in 1..Len(cs) : cs[i] # sep THEN <<cs>>
    ELSE LET i == CHOOSE i \in 1..Len(cs) :
                    cs[i] = sep /\ \A j \in 1..(i - 1) : cs[j] # sep
         IN  <<SubSeq(cs, 1, i - 1)>> \o SplitOn(SubSeq(cs, i + 1, Len(cs)), sep)

PercentDecode(hex) ==
    CASE hex = <<"2", "6">> -> "&"
      [] hex = <<"3", "D">> -> "="
      [] hex = <<"2", "B">> -> "+"
      [] hex = <<"2", "5">> -> "%"
      [] hex = <<"3", "F">> -> "?"
      [] hex = <<"2", "F">> -> "/"

RECURSIVE UrlDecode(_)
UrlDecode(cs) ==
    IF cs = <<>> THEN <<>>
    ELSE IF cs[1] = "+" THEN <<" ">> \o UrlDecode(Tail(cs))
    ELSE IF cs[1] = "%"
         THEN <<PercentDecode(SubSeq(cs, 2, 3))>> \o UrlDecode(SubSeq(cs, 4, Len(cs)))
    ELSE <<cs[1]>> \o UrlDecode(Tail(cs))

ParsePair(cs) ==
    LET parts == SplitOn(cs, "=")
    IN  <<UrlDecode(parts[1]), UrlDecode(Join(Tail(parts), <<"=">>))>>

ParseQuery(cs) ==
    LET pairs == SplitOn(cs, "&")
    IN  [i \in 1..Len(pairs) |-> ParsePair(pairs[i])]

\* what follows base and endpoint in the issued URL
UrlSuffix == SubSeq(inflight.url, Len(args.endpoint) + 2, Len(inflight.url))

CallParams == IF frame.fn = "apiRequest" THEN args.options.params ELSE args.params

HasValue(e) == e[2] # Undefined /\ e[2] # Null
KeyValue(e) == <<e[1], e[2].chars>>

EntriesOf(params) == IF params = Undefined THEN <<>> ELSE params.entries

\* the entries with a value, in the map's insertion order
InInsertionOrder(params) ==
    LET kept == SelectSeq(EntriesOf(params), HasValue)
    IN  [i \in 1..Len(kept) |-> KeyValue(kept[i])]

IssuesUrl == frame.phase = "issued" /\ frame.fn \in {"apiRequest", "downloadFile"}

\* C8 (as stated): the query string of the requested URL holds exactly the
\* entries of params whose value is neither undefined nor null, as key=value
\* pairs in the map's insertion order, and no "?" is appended when no entry
\* remains.
C8_Original ==
    IssuesUrl =>
        LET expected == InInsertionOrder(CallParams)
        IN  IF expected = <<>> THEN UrlSuffix = <<>>
            ELSE /\ UrlSuffix # <<>>
                 /\ Head(UrlSuffix) = "?"
                 /\ ParseQuery(Tail(UrlSuffix)) = expected

\* the order in which Object.entries enumerates two keys of a map: array
\* index keys by ascending value, before every other key; other keys in
\* insertion order
Position(entries, k) == CHOOSE i \in 1..Len(entries) : entries[i][1] = k

EnumeratedBefore(entries, k1, k2) ==
    IF IsArrayIndex(k1) /\ IsArrayIndex(k2) THEN DecimalValue(k1) < DecimalValue(k2)
    ELSE IF IsArrayIndex(k1) THEN TRUE
    ELSE IF IsArrayIndex(k2) THEN FALSE
    ELSE Position(entries, k1) < Position(entries, k2)

\* C8 (amended): the query string of the requested URL holds exactly the
\* entries of params whose value is neither undefined nor null, as
\* form-urlencoded key=value pairs in the order Object.entries enumerates
\* the map (integer-like keys first, ascending, then the other keys in
\* insertion order), and no "?" is appended when no entry remains.
C8_QueryString ==
    IssuesUrl =>
        LET expected == InInsertionOrder(CallParams)
        IN  IF expected = <<>> THEN UrlSuffix = <<>>
            ELSE /\ UrlSuffix # <<>>
                 /\ Head(UrlSuffix) = "?"
                 /\ LET query == ParseQuery(Tail(UrlSuffix))
                    IN  /\ Len(query) = Len(expected)
                        /\ \A i \in 1..Len(expected) :
                            \E j \in 1..Len(query) : query[j] = expected[i]
                        /\ \A i, j \in 1..Len(query) :
                            i < j => EnumeratedBefore(CallParams.entries,
                                                      query[i][1], query[j][1])

C8_Witness ==
    /\ Issued("downloadFile")
    /\ args.params # Undefined
    /\ Len(args.params.entries) = 2
    /\ args.params.entries[1] = <<<<"a">>, Chars(<<>>)>>
    /\ args.params.entries[2] = <<<<"1">>, Chars(<<"x", " ", "&">>)>>
    /\ UrlSuffix = <<"?", "1", "=", "x", "+", "%", "2", "6", "&", "a", "=">>

(***************************************************************************)
(* Properties of downloads and of the endpoint functions                   *)
(***************************************************************************)
DownloadSettled ==
    frame.phase = "settled" /\ frame.fn \in {"downloadFile", "downloadBatchResults"}

DownloadFailure ==
    \/ transport.kind = "reject"
    \/ GotResponse /\ (~ResponseOk(transport) \/ transport.bodyFails)

\* C9: a download returns true exactly when the response status is 2xx and
\* the host runtime recorded exactly one save request, under the given
\* filename; on a transport failure, a non-2xx status or a failure reading
\* the body it returns false and records no save request; it never throws.
C9_DownloadOutcome ==
    DownloadSettled =>
        /\ outcome.kind = "returned"
        /\ Result \in {Bool(TRUE), Bool(FALSE)}
        /\ Result = Bool(TRUE) <=>
                (GotResponse /\ ResponseOk(transport)
                    /\ saveRequests = <<frame.filename>>)
        /\ DownloadFailure => (Result = Bool(FALSE) /\ saveRequests = <<>>)

C9_Witness ==
    /\ DownloadSettled
    /\ frame.fn = "downloadFile"
    /\ GotResponse
    /\ transport.status = 200
    /\ Result = Bool(TRUE)
    /\ saveRequests = <<frame.filename>>

\* C10: no exported endpoint function propagates an exception for a
\* transport failure or a body-decode failure: every call that has settled
\* has returned a value.
C10_NoEndpointThrows ==
    frame.phase = "settled" => outcome.kind = "returned"

====
